---- MODULE Spec2Model ----
(***************************************************************************)
(* A model of the repetition iterator of chomp (combinators/macros.rs,     *)
(* run_iter!) and of the slice-backed stream (buffer/slice.rs,             *)
(* SliceStream::parse).                                                    *)
(*                                                                         *)
(* A parser is an arbitrary deterministic function from an Input to a      *)
(* ParseResult.  Its outcome at an offset is chosen the first time the     *)
(* parser is run there and remembered in ptab for the rest of the call.    *)
(***************************************************************************)
EXTENDS Integers, Sequences, FiniteSets, TLC

\* Longest slice a stream is built from.
MaxLen == 3

\* Most parser invocations followed inside one run_iter loop.
MaxCalls == 5

\* Largest number of repetitions asked of count.
MaxCount == 2

\* The combinators and the stream never look at a token, only at positions:
\* the token at index k of a slice is k, so that a region of a slice is
\* identified by its content.
Tokens == 1..MaxLen

\* The value of a successful attempt names the offset it started at.
Vals == 0..MaxLen
Errs == {"e1", "e2"}

\* Option<T>: None is the empty sequence, Some(x) the sequence holding x.
None == <<>>
Some(x) == <<x>>
Unwrap(o) == o[1]

NoVal == "-"
NoItem == -1
NoOutcome == None
NoInput == [data |-> <<>>, off |-> 0, inc |-> FALSE]
NoAttempt == [eFrom |-> NoInput, eRem |-> NoInput, pRan |-> FALSE, pFrom |-> NoInput]
NoResult == [ok |-> FALSE, rem |-> NoInput, val |-> <<>>, err |-> NoVal]
NoStreamResult == [kind |-> "none", val |-> <<>>, buf |-> <<>>, err |-> NoVal]

Slices == {[k \in 1..n |-> k] : n \in 0..MaxLen}

VARIABLES
    slice,      \* SliceStream.slice
    pos,        \* SliceStream.pos
    pc,         \* "idle", "iter" / "till" (from_iter is pulling next() of Iter /
                \* IterTill), "collected" / "till_collected", "panic"
    caller,     \* who runs the parsers: SliceStream::parse ("stream"), or code
                \* that builds an Input from the slice itself ("direct")
    state,      \* Iter.state: None or the last error
    buf,        \* Iter.buf: None or an Input
    mark,       \* Iter.mark
    items,      \* the collection from_iter is building
    ptab,       \* the element parser: outcome by offset, NoOutcome where not yet run
    calls,      \* parser invocations made by the current loop
    lastGood,   \* offset right after the last successful attempt of the loop
    input,      \* the Input the current loop was started on
    comb,       \* the combinator that expanded the macro: "many", "count", "sep_by", "many_till"
    data,       \* Iter.data: for count, the repetitions still to make
    num,        \* the n given to count
    stab,       \* the second parser (sep of sep_by, end of many_till): outcome by offset
    ecalls,     \* invocations of the second parser made by the current loop
    att,        \* the last next() of IterTill: the Input end was run on, the Input
                \* end returned, whether p was run and the Input it was run on
    out,        \* ParseResult of the last parser run to completion
    sres,       \* what the last SliceStream::parse call returned
    given,      \* the data the last SliceStream::parse call handed to its parser
    prevLen,    \* how many tokens the SliceStream::parse call before it handed over
    before,     \* SliceStream.pos when the last SliceStream::parse call was made
    retry,      \* the last SliceStream::parse call followed one that returned Incomplete
    ev          \* the step taken last

vars == <<slice, pos, pc, caller, state, buf, mark, items, ptab, calls,
          lastGood, input, comb, data, num, stab, ecalls, att,
          out, sres, given, prevLen, before, retry, ev>>

iterVars == <<state, buf, mark, items, ptab, calls, lastGood, input,
              comb, data, num, stab, ecalls, att>>

-----------------------------------------------------------------------------
(* Input: a borrowed token sequence, an offset and the incomplete flag.    *)

InputBufNew(s) == [data |-> s, off |-> 0, inc |-> FALSE]

InputLen(i) == Len(i.data) - i.off

InputMark(i) == i.off

InputRestore(i, m) == [i EXCEPT !.off = m]

IsIncomplete(i) == i.inc

ConsumeRemaining(i) == SubSeq(i.data, i.off + 1, Len(i.data))

(* What one run of a parser on input i can do: consume adv tokens, succeed *)
(* with a value or fail with an error, and flag that it ran off the end.   *)
Outcomes(i) ==
    {[ok |-> TRUE, adv |-> a, inc |-> f, val |-> i.off, err |-> NoVal] :
        a \in 0..InputLen(i), f \in BOOLEAN}
    \cup
    {[ok |-> FALSE, adv |-> a, inc |-> f, val |-> NoItem, err |-> e] :
        a \in 0..InputLen(i), f \in BOOLEAN, e \in Errs}

(* parser(i).into_inner() for a parser whose outcome on i is o.  A parser   *)
(* moves the offset forward and can set the incomplete flag, never clear   *)
(* it.                                                                     *)
RunParser(o, i) ==
    [ok  |-> o.ok,
     rem |-> [i EXCEPT !.off = @ + o.adv, !.inc = @ \/ o.inc],
     val |-> o.val,
     err |-> o.err]

EmptyTab == [q \in 0..MaxLen |-> NoOutcome]

-----------------------------------------------------------------------------
(* SliceStream                                                             *)

StreamLen == Len(slice) - pos

\* A variant of is_empty that forgets the position.
StreamIsEmpty_SliceOnly == Len(slice) = 0

StreamIsEmpty == StreamLen = 0

Unconsumed == SubSeq(slice, pos + 1, Len(slice))

(* Variants of the match in SliceStream::parse with a slip in them.         *)
StreamMatch_FlagFirst(r) ==
    IF IsIncomplete(r.rem)
    THEN [pos |-> pos,
          res |-> [kind |-> "Incomplete", val |-> <<>>, buf |-> <<>>, err |-> NoVal]]
    ELSE IF r.ok
    THEN [pos |-> pos + (StreamLen - InputLen(r.rem)),
          res |-> [kind |-> "Ok", val |-> r.val, buf |-> <<>>, err |-> NoVal]]
    ELSE [pos |-> pos + (StreamLen - InputLen(r.rem)),
          res |-> [kind |-> "ParseError", val |-> <<>>,
                   buf |-> ConsumeRemaining(r.rem), err |-> r.err]]

StreamMatch_AssignPos(r) ==
    IF r.ok
    THEN [pos |-> StreamLen - InputLen(r.rem),
          res |-> [kind |-> "Ok", val |-> r.val, buf |-> <<>>, err |-> NoVal]]
    ELSE IF IsIncomplete(r.rem)
    THEN [pos |-> pos,
          res |-> [kind |-> "Incomplete", val |-> <<>>, buf |-> <<>>, err |-> NoVal]]
    ELSE [pos |-> pos + (StreamLen - InputLen(r.rem)),
          res |-> [kind |-> "ParseError", val |-> <<>>,
                   buf |-> ConsumeRemaining(r.rem), err |-> r.err]]

StreamMatch_NoCommitOnError(r) ==
    IF r.ok
    THEN [pos |-> pos + (StreamLen - InputLen(r.rem)),
          res |-> [kind |-> "Ok", val |-> r.val, buf |-> <<>>, err |-> NoVal]]
    ELSE IF IsIncomplete(r.rem)
    THEN [pos |-> pos,
          res |-> [kind |-> "Incomplete", val |-> <<>>, buf |-> <<>>, err |-> NoVal]]
    ELSE [pos |-> pos,
          res |-> [kind |-> "ParseError", val |-> <<>>,
                   buf |-> ConsumeRemaining(r.rem), err |-> r.err]]

StreamMatch_CommitIncomplete(r) ==
    IF r.ok
    THEN [pos |-> pos + (StreamLen - InputLen(r.rem)),
          res |-> [kind |-> "Ok", val |-> r.val, buf |-> <<>>, err |-> NoVal]]
    ELSE IF IsIncomplete(r.rem)
    THEN [pos |-> pos + (StreamLen - InputLen(r.rem)),
          res |-> [kind |-> "Incomplete", val |-> <<>>, buf |-> <<>>, err |-> NoVal]]
    ELSE [pos |-> pos + (StreamLen - InputLen(r.rem)),
          res |-> [kind |-> "ParseError", val |-> <<>>,
                   buf |-> ConsumeRemaining(r.rem), err |-> r.err]]

StreamMatch_EndOfInputWhenIncomplete(r) ==
    IF r.ok
    THEN [pos |-> pos + (StreamLen - InputLen(r.rem)),
          res |-> [kind |-> "Ok", val |-> r.val, buf |-> <<>>, err |-> NoVal]]
    ELSE IF IsIncomplete(r.rem)
    THEN [pos |-> pos,
          res |-> [kind |-> "EndOfInput", val |-> <<>>, buf |-> <<>>, err |-> NoVal]]
    ELSE [pos |-> pos + (StreamLen - InputLen(r.rem)),
          res |-> [kind |-> "ParseError", val |-> <<>>,
                   buf |-> ConsumeRemaining(r.rem), err |-> r.err]]

(* The match on the parser's result in SliceStream::parse: the new pos and *)
(* the value returned.                                                     *)
StreamMatch(r) ==
    IF r.ok
    THEN [pos |-> pos + (StreamLen - InputLen(r.rem)),
          res |-> [kind |-> "Ok", val |-> r.val, buf |-> <<>>, err |-> NoVal]]
    ELSE IF IsIncomplete(r.rem)
    THEN [pos |-> pos,
          res |-> [kind |-> "Incomplete", val |-> <<>>, buf |-> <<>>, err |-> NoVal]]
    ELSE [pos |-> pos + (StreamLen - InputLen(r.rem)),
          res |-> [kind |-> "ParseError", val |-> <<>>,
                   buf |-> ConsumeRemaining(r.rem), err |-> r.err]]

-----------------------------------------------------------------------------
Init ==
    /\ slice \in Slices
    /\ pos = 0
    /\ pc = "idle"
    /\ caller \in {"stream", "direct"}
    /\ state = None
    /\ buf = None
    /\ mark = 0
    /\ items = <<>>
    /\ ptab = EmptyTab
    /\ calls = 0
    /\ lastGood = 0
    /\ input = NoInput
    /\ comb = "many"
    /\ data = 0
    /\ num = 0
    /\ stab = EmptyTab
    /\ ecalls = 0
    /\ att = NoAttempt
    /\ out = NoResult
    /\ sres = NoStreamResult
    /\ given = <<>>
    /\ prevLen = 0
    /\ before = 0
    /\ retry = FALSE
    /\ ev = "new"

(* No iterator is left of an earlier loop.                                 *)
NoIter ==
    /\ state' = None
    /\ buf' = None
    /\ mark' = 0
    /\ items' = <<>>
    /\ ptab' = EmptyTab
    /\ stab' = EmptyTab
    /\ ecalls' = 0
    /\ lastGood' = 0
    /\ input' = NoInput
    /\ comb' = "many"
    /\ data' = 0
    /\ num' = 0
    /\ att' = NoAttempt

(* parse on a stream with nothing left: EndOfInput, the parser is not run. *)
ParseEmpty ==
    /\ pc = "idle"
    /\ caller = "stream"
    /\ StreamIsEmpty
    /\ sres' = [kind |-> "EndOfInput", val |-> <<>>, buf |-> <<>>, err |-> NoVal]
    /\ before' = pos
    /\ retry' = (sres.kind = "Incomplete")
    /\ ev' = "ParseEmpty"
    /\ UNCHANGED <<slice, pos, pc, caller, iterVars, out, given, prevLen>>

(* parse(f) for a parser f that is not a repetition: one run of f on the   *)
(* unconsumed region, then the commit.                                     *)
ParsePlain ==
    /\ pc = "idle"
    /\ caller = "stream"
    /\ ~StreamIsEmpty
    /\ LET i == InputBufNew(Unconsumed) IN
       \E o \in Outcomes(i) :
          LET r == [RunParser(o, i) EXCEPT !.val = IF o.ok THEN <<@>> ELSE <<>>]
              m == StreamMatch(r)
          IN /\ out' = r
             /\ pos' = m.pos
             /\ sres' = m.res
             /\ given' = i.data
             /\ prevLen' = Len(given)
    /\ before' = pos
    /\ retry' = (sres.kind = "Incomplete")
    /\ calls' = 1
    /\ ev' = "ParsePlain"
    /\ NoIter
    /\ UNCHANGED <<slice, pc, caller>>

(* run_iter!: the mark of the input is taken and the Iter is built, with   *)
(* the state d the combinator cb asks for.  The caller is                  *)
(* SliceStream::parse, or code holding an Input of its own.                *)
RunIterStart(c, cb, d) ==
    /\ pc = "idle"
    /\ caller = c
    /\ c = "stream" => ~StreamIsEmpty
    /\ LET i == InputBufNew(Unconsumed) IN
       /\ mark' = InputMark(i)
       /\ buf' = Some(i)
       /\ lastGood' = i.off
       /\ input' = i
       /\ given' = IF c = "stream" THEN i.data ELSE given
       /\ prevLen' = IF c = "stream" THEN Len(given) ELSE prevLen
    /\ before' = IF c = "stream" THEN pos ELSE before
    /\ retry' = IF c = "stream" THEN sres.kind = "Incomplete" ELSE retry
    /\ state' = None
    /\ items' = <<>>
    /\ ptab' = EmptyTab
    /\ stab' = EmptyTab
    /\ calls' = 0
    /\ ecalls' = 0
    /\ att' = NoAttempt
    /\ comb' = cb
    /\ data' = d
    /\ num' = d
    /\ caller' = c
    /\ pc' = "iter"
    /\ out' = NoResult
    /\ sres' = IF c = "stream" THEN NoStreamResult ELSE sres
    /\ ev' = "RunIterBegin"
    /\ UNCHANGED <<slice, pos>>

(* many(p)                                                                 *)
RunIterBegin(c) == RunIterStart(c, "many", 0)

(* count(p, n)                                                             *)
CountBegin(c, n) == RunIterStart(c, "count", n)

(* sep_by(p, sep)                                                          *)
SepByBegin(c) == RunIterStart(c, "sep_by", 0)

(* Variants of Iter::next with a slip in them, used to show that the        *)
(* properties below depend on the code.                                    *)
IterNextStep_MarkAfter(st, i, r) ==
    [mark  |-> InputMark(r.rem),
     buf   |-> Some(r.rem),
     state |-> IF r.ok THEN st ELSE Some(r.err),
     ret   |-> IF r.ok THEN Some(r.val) ELSE None]

IterNextStep_RemarkOnErr(st, i, r) ==
    [mark  |-> IF r.ok THEN InputMark(i) ELSE InputMark(r.rem),
     buf   |-> Some(r.rem),
     state |-> IF r.ok THEN st ELSE Some(r.err),
     ret   |-> IF r.ok THEN Some(r.val) ELSE None]

IterNextStep_KeepIncomplete(st, i, r) ==
    [mark  |-> IF IsIncomplete(r.rem) THEN InputMark(r.rem) ELSE InputMark(i),
     buf   |-> Some(r.rem),
     state |-> IF r.ok THEN st ELSE Some(r.err),
     ret   |-> IF r.ok THEN Some(r.val) ELSE None]

IterNextStep_NoState(st, i, r) ==
    [mark  |-> InputMark(i),
     buf   |-> Some(r.rem),
     state |-> st,
     ret   |-> IF r.ok THEN Some(r.val) ELSE None]

IterNextStep_StopAtEnd(st, i, r) ==
    [mark  |-> InputMark(i),
     buf   |-> Some(r.rem),
     state |-> IF r.ok THEN st ELSE Some(r.err),
     ret   |-> IF r.ok /\ InputLen(r.rem) > 0 THEN Some(r.val) ELSE None]

IterNextStep_GoOnAfterErr(st, i, r) ==
    [mark  |-> InputMark(i),
     buf   |-> Some(r.rem),
     state |-> IF r.ok THEN st ELSE Some(r.err),
     ret   |-> Some(r.val)]

IterNextStep_NoPutBack(st, i, r) ==
    [mark  |-> InputMark(i),
     buf   |-> IF r.ok THEN Some(r.rem) ELSE None,
     state |-> IF r.ok THEN st ELSE Some(r.err),
     ret   |-> IF r.ok THEN Some(r.val) ELSE None]

(* Iter::next on an iterator whose state field is st, for the input i it   *)
(* took out of buf and the result r of the parser on i: the fields it      *)
(* assigns and the Option it returns.                                      *)
IterNextStep(st, i, r) ==
    [mark  |-> InputMark(i),
     buf   |-> Some(r.rem),
     state |-> IF r.ok THEN st ELSE Some(r.err),
     ret   |-> IF r.ok THEN Some(r.val) ELSE None]

(* The outcomes a parser whose table is tab can have on i: the one it had  *)
(* there before, or any when it has not been run there yet.                *)
OutcomesAt(tab, i) ==
    IF tab[i.off] # NoOutcome THEN {Unwrap(tab[i.off])} ELSE Outcomes(i)

(* The runs of the element parser of the loop on i: the result, the        *)
(* outcomes met, and which of the two parsers were invoked.  The element   *)
(* parser of sep_by is p for the first item and sep followed by p for the  *)
(* others; for the other combinators it is p.                              *)
ElementRuns(i) ==
    IF comb = "sep_by" /\ items # <<>>
    THEN UNION {
           IF ~os.ok
           THEN {[r |-> RunParser(os, i), ptab |-> ptab,
                  stab |-> [stab EXCEPT ![i.off] = Some(os)], np |-> 0, ns |-> 1]}
           ELSE LET j == RunParser(os, i).rem IN
                {[r |-> RunParser(op, j),
                  ptab |-> [ptab EXCEPT ![j.off] = Some(op)],
                  stab |-> [stab EXCEPT ![i.off] = Some(os)],
                  np |-> 1, ns |-> 1] : op \in OutcomesAt(ptab, j)}
           : os \in OutcomesAt(stab, i)}
    ELSE {[r |-> RunParser(o, i), ptab |-> [ptab EXCEPT ![i.off] = Some(o)],
           stab |-> stab, np |-> 1, ns |-> 0] : o \in OutcomesAt(ptab, i)}

(* The pre hook of next(): count returns None once it has made its         *)
(* repetitions.                                                            *)
PreNextReturns == comb = "count" /\ data = 0

(* The on hook of next(): count counts the item down.                      *)
OnNext(d) == IF comb = "count" THEN d - 1 ELSE d

(* One call of next() by FromIterator::from_iter, which appends what it    *)
(* gets and stops at the first None.                                       *)
IterNext ==
    /\ pc = "iter"
    /\ calls < MaxCalls
    /\ ev' = "IterNext"
    /\ IF PreNextReturns
       THEN /\ pc' = "collected"
            /\ UNCHANGED <<slice, pos, caller, iterVars, out, sres, given, prevLen, before, retry>>
       ELSE IF buf = None
       THEN /\ pc' = "panic"
            /\ UNCHANGED <<slice, pos, caller, iterVars, out, sres, given, prevLen, before, retry>>
       ELSE LET i == Unwrap(buf) IN
            \E e \in ElementRuns(i) :
            /\ ptab' = e.ptab
            /\ stab' = e.stab
            /\ calls' = calls + e.np
            /\ ecalls' = ecalls + e.ns
            /\ LET r == e.r
                   n == IterNextStep(state, i, r)
               IN /\ mark' = n.mark
                  /\ buf' = n.buf
                  /\ state' = n.state
                  /\ items' = IF n.ret = None THEN items
                                             ELSE Append(items, Unwrap(n.ret))
                  /\ data' = IF n.ret = None THEN data ELSE OnNext(data)
                  /\ pc' = IF n.ret = None THEN "collected" ELSE "iter"
                  /\ lastGood' = IF r.ok THEN r.rem.off ELSE lastGood
            /\ UNCHANGED <<slice, pos, caller, input, comb, num, att,
                           out, sres, given, prevLen, before, retry>>

(* A call of next() made after next() has returned None, by a caller that  *)
(* does not stop there: what it does to the fields of the Iter.  What the  *)
(* loop of from_iter collected and counted stays as it was.                *)
IterNextAgain ==
    /\ pc = "collected"
    /\ ev' = "IterNextAgain"
    /\ IF PreNextReturns
       THEN UNCHANGED <<slice, pos, pc, caller, iterVars, out, sres, given, prevLen,
                        before, retry>>
       ELSE IF buf = None
       THEN /\ pc' = "panic"
            /\ UNCHANGED <<slice, pos, caller, iterVars, out, sres, given, prevLen, before, retry>>
       ELSE LET i == Unwrap(buf) IN
            \E e \in ElementRuns(i) :
            /\ LET n == IterNextStep(state, i, e.r)
               IN /\ mark' = n.mark
                  /\ buf' = n.buf
                  /\ state' = n.state
                  /\ data' = IF n.ret = None THEN data ELSE OnNext(data)
            /\ UNCHANGED <<slice, pos, pc, caller, items, ptab, stab, lastGood, input,
                           comb, num, att, calls, ecalls,
                           out, sres, given, prevLen, before, retry>>

(* The arm of many (and skip_many, sep_by) on the end state of the loop.   *)
ManyArm(s, m, st, result) ==
    [ok |-> TRUE, rem |-> InputRestore(s, m), val |-> result, err |-> NoVal]

(* The arms of count: all repetitions made, or too few.                    *)
CountArm(s, d, m, st, result) ==
    IF d = 0
    THEN [ok |-> TRUE, rem |-> s, val |-> result, err |-> NoVal]
    ELSE [ok |-> FALSE, rem |-> InputRestore(s, m), val |-> <<>>,
          err |-> IF st = None THEN NoVal ELSE Unwrap(st)]

(* end_state(), the arm, and the return to the caller.                     *)
RunIterEnd ==
    /\ pc = "collected"
    /\ ev' = "RunIterEnd"
    /\ IF buf = None
       THEN /\ pc' = "panic"
            /\ UNCHANGED <<slice, pos, caller, iterVars, out, sres, given, prevLen, before, retry>>
       ELSE LET r == IF comb = "count"
                     THEN CountArm(Unwrap(buf), data, mark, state, items)
                     ELSE ManyArm(Unwrap(buf), mark, state, items) IN
            /\ out' = r
            /\ pc' = "idle"
            /\ IF caller = "stream"
               THEN /\ pos' = StreamMatch(r).pos
                    /\ sres' = StreamMatch(r).res
               ELSE UNCHANGED <<pos, sres>>
            /\ UNCHANGED <<slice, caller, iterVars, given, prevLen, before, retry>>

-----------------------------------------------------------------------------
(* run_iter_till!                                                          *)

\* EndStateTill
TillIncomplete == <<"Incomplete">>
TillEndSuccess == <<"EndSuccess">>
TillError(e) == <<"Error", e>>

(* run_iter_till!: the IterTill is built; many_till(p, end).               *)
RunIterTillBegin(c) ==
    /\ pc = "idle"
    /\ caller = c
    /\ c = "stream" => ~StreamIsEmpty
    /\ LET i == InputBufNew(Unconsumed) IN
       /\ buf' = Some(i)
       /\ lastGood' = i.off
       /\ input' = i
       /\ given' = IF c = "stream" THEN i.data ELSE given
       /\ prevLen' = IF c = "stream" THEN Len(given) ELSE prevLen
    /\ before' = IF c = "stream" THEN pos ELSE before
    /\ retry' = IF c = "stream" THEN sres.kind = "Incomplete" ELSE retry
    /\ state' = TillIncomplete
    /\ items' = <<>>
    /\ ptab' = EmptyTab
    /\ stab' = EmptyTab
    /\ calls' = 0
    /\ ecalls' = 0
    /\ att' = NoAttempt
    /\ comb' = "many_till"
    /\ pc' = "till"
    /\ out' = NoResult
    /\ sres' = IF c = "stream" THEN NoStreamResult ELSE sres
    /\ ev' = "RunIterTillBegin"
    /\ mark' = 0
    /\ data' = 0
    /\ num' = 0
    /\ UNCHANGED <<slice, pos, caller>>

(* Variants of iter_till_end_test! with a slip in them.                    *)
EndTestStep_RestoreAlways(st, i, r) ==
    [buf     |-> Some(InputRestore(r.rem, InputMark(i))),
     state   |-> IF r.ok THEN TillEndSuccess ELSE st,
     returns |-> r.ok]

EndTestStep_NoRestore(st, i, r) ==
    [buf     |-> Some(r.rem),
     state   |-> IF r.ok THEN TillEndSuccess ELSE st,
     returns |-> r.ok]

EndTestStep_MarkAfter(st, i, r) ==
    [buf     |-> IF r.ok THEN Some(r.rem)
                         ELSE Some(InputRestore(r.rem, InputMark(r.rem))),
     state   |-> IF r.ok THEN TillEndSuccess ELSE st,
     returns |-> r.ok]

(* iter_till_end_test! on an iterator whose state field is st, for the     *)
(* input i it took out of buf and the result r of end on i: the fields it  *)
(* assigns and whether it makes next() return None.                        *)
EndTestStep(st, i, r) ==
    [buf     |-> IF r.ok THEN Some(r.rem)
                         ELSE Some(InputRestore(r.rem, InputMark(i))),
     state   |-> IF r.ok THEN TillEndSuccess ELSE st,
     returns |-> r.ok]

(* Variants of IterTill::next with a slip in them.                         *)
IterTillNextStep_KeepState(st, i, r) ==
    [buf   |-> Some(r.rem),
     state |-> st,
     ret   |-> IF r.ok THEN Some(r.val) ELSE None]

IterTillNextStep_PutBackInput(st, i, r) ==
    [buf   |-> IF r.ok THEN Some(r.rem) ELSE Some(i),
     state |-> IF r.ok THEN st ELSE TillError(r.err),
     ret   |-> IF r.ok THEN Some(r.val) ELSE None]

(* IterTill::next after its pre hook, for the input i it took out of buf   *)
(* and the result r of the parser on i.                                    *)
IterTillNextStep(st, i, r) ==
    [buf   |-> Some(r.rem),
     state |-> IF r.ok THEN st ELSE TillError(r.err),
     ret   |-> IF r.ok THEN Some(r.val) ELSE None]

(* One call of next() by from_iter: the end test of many_till as the pre   *)
(* hook, then the parser.                                                  *)
IterTillNext ==
    /\ pc = "till"
    /\ calls < MaxCalls
    /\ ev' = "IterTillNext"
    /\ IF buf = None
       THEN /\ pc' = "panic"
            /\ UNCHANGED <<slice, pos, caller, iterVars, out, sres, given, prevLen, before, retry>>
       ELSE LET i == Unwrap(buf) IN
            \E oe \in Outcomes(i) :
            LET re == RunParser(oe, i)
                t  == EndTestStep(state, i, re)
            IN
            /\ ecalls' = ecalls + 1
            /\ IF t.returns
               THEN /\ buf' = t.buf
                    /\ state' = t.state
                    /\ pc' = "till_collected"
                    /\ lastGood' = re.rem.off
                    /\ att' = [eFrom |-> i, eRem |-> re.rem,
                               pRan |-> FALSE, pFrom |-> NoInput]
                    /\ UNCHANGED <<items, ptab, calls>>
               ELSE IF t.buf = None
               THEN /\ pc' = "panic"
                    /\ buf' = t.buf
                    /\ UNCHANGED <<state, lastGood, att, items, ptab, calls>>
               ELSE LET j == Unwrap(t.buf) IN
                    \E op \in OutcomesAt(ptab, j) :
                    LET r == RunParser(op, j)
                        n == IterTillNextStep(t.state, j, r)
                    IN /\ ptab' = [ptab EXCEPT ![j.off] = Some(op)]
                       /\ calls' = calls + 1
                       /\ buf' = n.buf
                       /\ state' = n.state
                       /\ items' = IF n.ret = None THEN items
                                                  ELSE Append(items, Unwrap(n.ret))
                       /\ pc' = IF n.ret = None THEN "till_collected" ELSE "till"
                       /\ lastGood' = IF r.ok THEN r.rem.off ELSE lastGood
                       /\ att' = [eFrom |-> i, eRem |-> re.rem,
                                  pRan |-> TRUE, pFrom |-> j]
            /\ UNCHANGED <<slice, pos, caller, mark, input, comb, data, num, stab,
                           out, sres, given, prevLen, before, retry>>

(* A call of next() of IterTill made after next() has returned None: what  *)
(* it does to the fields of the IterTill.                                  *)
IterTillNextAgain ==
    /\ pc = "till_collected"
    /\ ev' = "IterTillNextAgain"
    /\ IF buf = None
       THEN /\ pc' = "panic"
            /\ UNCHANGED <<slice, pos, caller, iterVars, out, sres, given, prevLen, before, retry>>
       ELSE LET i == Unwrap(buf) IN
            \E oe \in Outcomes(i) :
            LET t == EndTestStep(state, i, RunParser(oe, i)) IN
            /\ IF t.returns
               THEN /\ buf' = t.buf
                    /\ state' = t.state
                    /\ UNCHANGED pc
               ELSE IF t.buf = None
               THEN /\ pc' = "panic"
                    /\ buf' = t.buf
                    /\ UNCHANGED state
               ELSE LET j == Unwrap(t.buf) IN
                    \E op \in OutcomesAt(ptab, j) :
                    LET n == IterTillNextStep(t.state, j, RunParser(op, j)) IN
                    /\ buf' = n.buf
                    /\ state' = n.state
                    /\ UNCHANGED pc
            /\ UNCHANGED <<slice, pos, caller, mark, items, ptab, stab, lastGood, input,
                           comb, data, num, att, calls, ecalls,
                           out, sres, given, prevLen, before, retry>>

(* The arms of many_till on the end state of the loop.                     *)
TillArm(s, st, result) ==
    IF st = TillEndSuccess
    THEN [ok |-> TRUE, rem |-> s, val |-> result, err |-> NoVal]
    ELSE IF st = TillIncomplete
    THEN [ok |-> FALSE, rem |-> [s EXCEPT !.inc = TRUE], val |-> <<>>, err |-> NoVal]
    ELSE [ok |-> FALSE, rem |-> s, val |-> <<>>, err |-> st[2]]

(* end_state() of IterTill, the arm, and the return to the caller.         *)
RunIterTillEnd ==
    /\ pc = "till_collected"
    /\ ev' = "RunIterTillEnd"
    /\ IF buf = None
       THEN /\ pc' = "panic"
            /\ UNCHANGED <<slice, pos, caller, iterVars, out, sres, given, prevLen, before, retry>>
       ELSE LET r == TillArm(Unwrap(buf), state, items) IN
            /\ out' = r
            /\ pc' = "idle"
            /\ IF caller = "stream"
               THEN /\ pos' = StreamMatch(r).pos
                    /\ sres' = StreamMatch(r).res
               ELSE UNCHANGED <<pos, sres>>
            /\ UNCHANGED <<slice, caller, iterVars, given, prevLen, before, retry>>

Next ==
    \/ ParseEmpty
    \/ ParsePlain
    \/ RunIterBegin("stream")
    \/ RunIterBegin("direct")
    \/ \E c \in {"stream", "direct"}, n \in 0..MaxCount : CountBegin(c, n)
    \/ \E c \in {"stream", "direct"} : SepByBegin(c)
    \/ IterNext
    \/ RunIterEnd
    \/ \E c \in {"stream", "direct"} : RunIterTillBegin(c)
    \/ IterTillNext
    \/ RunIterTillEnd

Spec == Init /\ [][Next]_vars

(* The owner of the stream appends the next token of the source to the     *)
(* backing store; what is stored and what is consumed stay as they are.    *)
Refill ==
    /\ pc = "idle"
    /\ caller = "stream"
    /\ Len(slice) < MaxLen
    /\ slice' = Append(slice, Len(slice) + 1)
    /\ ev' = "Refill"
    /\ UNCHANGED <<pos, pc, caller, iterVars, out, sres, given, prevLen, before, retry>>

NextChunked == Next \/ Refill

(* The loops with a caller that may call next() again after a None.        *)
NextAgain ==
    \/ RunIterBegin("direct")
    \/ \E n \in 0..MaxCount : CountBegin("direct", n)
    \/ SepByBegin("direct")
    \/ IterNext
    \/ IterNextAgain
    \/ RunIterEnd
    \/ RunIterTillBegin("direct")
    \/ IterTillNext
    \/ IterTillNextAgain
    \/ RunIterTillEnd

SpecAgain == Init /\ [][NextAgain]_vars

(* The loop of run_iter! alone, with from_iter calling next() until it     *)
(* gets a None.                                                            *)
NextLoop ==
    \/ RunIterBegin("direct")
    \/ \E n \in 0..MaxCount : CountBegin("direct", n)
    \/ SepByBegin("direct")
    \/ IterNext
    \/ RunIterEnd

SpecLoop == Init /\ [][NextLoop]_vars /\ WF_vars(IterNext)

SpecChunked == Init /\ [][NextChunked]_vars

TypeOK ==
    /\ slice \in Slices
    /\ pos \in 0..Len(slice)
    /\ prevLen \in 0..MaxLen
    /\ pc \in {"idle", "iter", "collected", "till", "till_collected", "panic"}
    /\ calls \in 0..MaxCalls

-----------------------------------------------------------------------------
(* Properties                                                              *)

\* The element parser has been run at offset q / what it did there.
Ran(q) == ptab[q] # NoOutcome
Attempt(q) == Unwrap(ptab[q])

\* Once the loop has ended: the attempt it ended on, which started where the
\* last success ended.
FailedAttempt == Attempt(lastGood)

\* The loop of many has returned to its caller.
ManyReturned == pc = "idle" /\ ev = "RunIterEnd" /\ comb = "many"

\* The values of the consecutive successes of the element parser from offset
\* q on, and the offset where that run of successes ends.
RECURSIVE MaximalRun(_, _)
MaximalRun(q, fuel) ==
    IF fuel = 0 \/ ~Ran(q) \/ ~Attempt(q).ok
    THEN <<>>
    ELSE <<Attempt(q).val>> \o MaximalRun(q + Attempt(q).adv, fuel - 1)

RECURSIVE MaximalRunEnd(_, _)
MaximalRunEnd(q, fuel) ==
    IF fuel = 0 \/ ~Ran(q) \/ ~Attempt(q).ok
    THEN q
    ELSE MaximalRunEnd(q + Attempt(q).adv, fuel - 1)

\* C1: when the loop of run_iter has ended on a failed attempt, restoring the
\* remaining Input to the recorded mark gives the position right after the
\* last successful attempt (the start when there was none), whatever the
\* failing attempt consumed; the buffer is the one the loop was started on.
C1_RestoreIsAfterLastSuccess ==
    (pc = "collected" /\ state # None) =>
        /\ buf # None
        /\ InputRestore(Unwrap(buf), mark).off = lastGood
        /\ InputRestore(Unwrap(buf), mark).data = input.data

\* C1 witness: the loop ended after a success, on an attempt that consumed
\* tokens before it failed.
C1_Witness ==
    /\ pc = "collected"
    /\ state # None
    /\ Len(items) >= 1
    /\ Unwrap(buf).off > lastGood
    /\ lastGood > 0

\* C2: if p fails on its first attempt, many(p) returns Success with an empty
\* collection and the remaining Input at the starting position.
C2_FirstFailureConsumesNothing ==
    (ManyReturned /\ Ran(input.off) /\ ~Attempt(input.off).ok) =>
        /\ out.ok
        /\ out.val = <<>>
        /\ out.rem.off = input.off
        /\ out.rem.data = input.data

\* C2 witness: the first attempt failed after consuming tokens, and many
\* has returned.
C2_Witness ==
    /\ ManyReturned
    /\ Ran(input.off) /\ ~Attempt(input.off).ok
    /\ Attempt(input.off).adv > 0
    /\ out.ok /\ out.val = <<>>

\* C3: many(p) collects the maximal run of consecutive successes of p from
\* the start: p, run on the remaining Input, does not succeed, the items are
\* the values of the successful attempts made before the first failing one
\* and the remaining Input is where that run ends.
C3_ManyIsMaximalRun ==
    ManyReturned =>
        /\ out.ok
        /\ Ran(out.rem.off) /\ ~Attempt(out.rem.off).ok
        /\ out.val = MaximalRun(input.off, MaxCalls)
        /\ out.rem.off = MaximalRunEnd(input.off, MaxCalls)
        /\ Len(out.val) = calls - 1

\* C3 witness: many returned two items, the second match reaching the end
\* of the input.
C3_Witness ==
    /\ ManyReturned
    /\ Len(out.val) = 2
    /\ out.rem.off = Len(input.data)
    /\ out.rem.off > 1

\* A SliceStream::parse call that ran its parser has returned.
StreamReturned ==
    /\ pc = "idle"
    /\ \/ ev = "ParsePlain"
       \/ ev \in {"RunIterEnd", "RunIterTillEnd"} /\ caller = "stream"

\* C4 as claimed: when an attempt of p inside many(p) reports incomplete,
\* many(p) reports Incomplete (a failure whose remainder is flagged
\* incomplete) and not Success.
C4_Original ==
    (ManyReturned /\ ~FailedAttempt.ok /\ FailedAttempt.inc) =>
        (~out.ok /\ IsIncomplete(out.rem))

\* C4 as amended: when an attempt of p inside many(p) reports incomplete,
\* many(p) reports Success with the items collected before that attempt and
\* the remaining Input at the position right after the last successful
\* attempt, on the first attempt as well as after successes.
C4_IncompleteAttemptEndsManyWithSuccess ==
    (ManyReturned /\ ~FailedAttempt.ok /\ FailedAttempt.inc) =>
        /\ out.ok
        /\ out.val = items
        /\ Len(out.val) = calls - 1
        /\ out.rem.off = lastGood

\* C4 witness: after one success an attempt consumed a token and ran out of
\* input, and many has returned.
C4_Witness ==
    /\ ManyReturned
    /\ ~FailedAttempt.ok /\ FailedAttempt.inc /\ FailedAttempt.adv > 0
    /\ Len(out.val) >= 1
    /\ out.ok

\* C5: when the unconsumed data of a SliceStream is k >= 1 consecutive
\* matches of p and nothing else, parse(many(p)) returns Ok with the k values
\* in input order, not Incomplete, and leaves the stream empty.
C5_ManyOverWholeStreamIsOk ==
    (/\ ManyReturned /\ caller = "stream"
     /\ MaximalRun(0, MaxCalls) # <<>>
     /\ MaximalRunEnd(0, MaxCalls) = Len(given)) =>
        /\ sres.kind = "Ok"
        /\ sres.val = MaximalRun(0, MaxCalls)
        /\ Len(slice) - pos = 0

\* C5 witness: two matches cover the unconsumed data, the third attempt ran
\* out of input, and parse returned Ok.
C5_Witness ==
    /\ ManyReturned /\ caller = "stream"
    /\ Len(sres.val) = 2
    /\ MaximalRunEnd(0, MaxCalls) = Len(given)
    /\ FailedAttempt.inc
    /\ sres.kind = "Ok"
    /\ pos = Len(slice)

\* C6: when the parser succeeds, parse returns its value and advances pos by
\* the tokens the parser consumed; what is left in the stream has the length
\* of the parser's remainder.
C6_SuccessCommitsConsumed ==
    (StreamReturned /\ out.ok) =>
        /\ sres.kind = "Ok"
        /\ sres.val = out.val
        /\ pos = before + out.rem.off
        /\ pos = before + ((Len(slice) - before) - InputLen(out.rem))
        /\ Len(slice) - pos = InputLen(out.rem)

\* C6 witness: a parser run on a stream already advanced succeeded after
\* consuming some of what was left.
C6_Witness ==
    /\ StreamReturned /\ out.ok
    /\ before > 0
    /\ out.rem.off > 0
    /\ InputLen(out.rem) > 0
    /\ sres.kind = "Ok"

\* C7: when the parser fails with a definite error, parse advances pos by the
\* tokens consumed before the failure and returns ParseError with the
\* parser's error and a buffer that is the unconsumed region after the commit.
C7_ErrorCommitsAndReturnsRest ==
    (StreamReturned /\ ~out.ok /\ ~IsIncomplete(out.rem)) =>
        /\ sres.kind = "ParseError"
        /\ sres.err = out.err
        /\ pos = before + out.rem.off
        /\ sres.buf = SubSeq(slice, pos + 1, Len(slice))
        /\ Len(sres.buf) = Len(slice) - pos

\* C7 witness: a parser consumed a token and failed with tokens left.
C7_Witness ==
    /\ StreamReturned /\ ~out.ok /\ ~IsIncomplete(out.rem)
    /\ out.rem.off > 0
    /\ sres.kind = "ParseError"
    /\ Len(sres.buf) > 0

\* C8: when the parser fails with its remainder flagged incomplete, parse
\* returns Incomplete and leaves pos and the remaining length unchanged; the
\* next parse call hands its parser the same region from the same position.
C8_IncompleteLeavesStream ==
    [][/\ ((ev' = "ParsePlain"
            \/ (ev' \in {"RunIterEnd", "RunIterTillEnd"} /\ caller = "stream"))
           /\ ~out'.ok /\ IsIncomplete(out'.rem)) =>
              /\ sres'.kind = "Incomplete"
              /\ pos' = pos
              /\ Len(slice') - pos' = Len(slice) - pos
       /\ (sres.kind = "Incomplete"
           /\ (ev' = "ParsePlain"
               \/ (ev' \in {"RunIterBegin", "RunIterTillBegin"} /\ caller' = "stream"))) =>
              /\ given' = given
              /\ before' = before]_vars

\* C8 witness: a call made right after an Incomplete one; its parser
\* consumed tokens and ran out of input again.
C8_Witness ==
    /\ retry
    /\ StreamReturned
    /\ sres.kind = "Incomplete"
    /\ out.rem.off > 0
    /\ before > 0
    /\ pos = before

\* C9: parse on a stream with no unconsumed tokens returns EndOfInput, does
\* not run the parser and does not change pos.
C9_EmptyStreamIsEndOfInput ==
    [][(/\ pc = "idle"
        /\ Len(slice) - pos = 0
        /\ (ev' \in {"ParseEmpty", "ParsePlain"}
            \/ (ev' \in {"RunIterBegin", "RunIterTillBegin"} /\ caller' = "stream"))) =>
           /\ ev' = "ParseEmpty"
           /\ sres'.kind = "EndOfInput"
           /\ pos' = pos
           /\ calls' = calls
           /\ ptab' = ptab
           /\ out' = out]_vars

\* C9 witness: parse was called on a stream whose tokens were all consumed.
C9_Witness ==
    /\ ev = "ParseEmpty"
    /\ sres.kind = "EndOfInput"
    /\ pos > 0
    /\ pos = Len(slice)

\* C10 as claimed: a SliceStream can supply no more tokens than its slice,
\* so when the parser still wants more parse returns EndOfInput and never
\* Incomplete.
C10_Original ==
    (StreamReturned /\ ~out.ok /\ IsIncomplete(out.rem)) =>
        (sres.kind = "EndOfInput" /\ sres.kind # "Incomplete")

\* C10 as amended: parse returns EndOfInput exactly when the stream had no
\* unconsumed tokens when it was called; when the parser is run and fails
\* with its remainder flagged incomplete, parse returns Incomplete, although
\* a SliceStream can supply no more tokens.
C10_EndOfInputOnlyWhenEmpty ==
    /\ (pc = "idle" /\ (ev = "ParseEmpty" \/ StreamReturned)) =>
           (sres.kind = "EndOfInput" <=> Len(slice) - before = 0)
    /\ StreamReturned =>
           (sres.kind = "Incomplete" <=> (~out.ok /\ IsIncomplete(out.rem)))

\* C10 witness: the parser consumed all that was left, still wanted more,
\* and parse returned Incomplete.
C10_Witness ==
    /\ StreamReturned
    /\ ~out.ok /\ IsIncomplete(out.rem)
    /\ InputLen(out.rem) = 0
    /\ sres.kind = "Incomplete"

\* The loop of count / of sep_by has returned to its caller.
CountReturned == pc = "idle" /\ ev = "RunIterEnd" /\ comb = "count"
SepByReturned == pc = "idle" /\ ev = "RunIterEnd" /\ comb = "sep_by"

\* What sep did at offset q.
SepRan(q) == stab[q] # NoOutcome
SepAttempt(q) == Unwrap(stab[q])

\* C16: count(p, n) on input where p succeeds k < n times and then fails
\* returns an Error whose remaining Input is right after the k-th match, not
\* past what the failed attempt consumed (and not at the start when k > 0).
C16_CountErrorIsAfterLastMatch ==
    (CountReturned /\ state # None) =>
        /\ ~out.ok
        /\ Len(items) < num
        /\ out.rem.off = MaximalRunEnd(input.off, num)
        /\ out.rem.off = lastGood
        /\ out.rem.data = input.data

\* C16 witness: one match, then an attempt that consumed a token and failed.
C16_Witness ==
    /\ CountReturned /\ state # None
    /\ Len(items) >= 1
    /\ lastGood > 0
    /\ FailedAttempt.adv > 0
    /\ ~out.ok

\* C17: count(p, n) succeeds exactly when p succeeds in n consecutive
\* attempts; then p was invoked n times and the collection holds the n values
\* in order.  A failing attempt ends the operation with that attempt's error
\* (flagged incomplete when the attempt was), and p is not invoked again.
C17_CountIsExactlyN ==
    CountReturned =>
        /\ out.ok <=> Len(MaximalRun(input.off, num)) = num
        /\ out.ok =>
              /\ calls = num
              /\ out.val = MaximalRun(input.off, num)
              /\ Len(out.val) = num
        /\ ~out.ok =>
              /\ calls = Len(items) + 1
              /\ Ran(lastGood)
              /\ out.err = FailedAttempt.err
              /\ FailedAttempt.inc => IsIncomplete(out.rem)

\* C17 witness: count(p, 2) made its two matches and stopped with input left.
C17_Witness ==
    /\ CountReturned
    /\ num = 2
    /\ out.ok
    /\ calls = 2
    /\ InputLen(out.rem) > 0

\* C18: in sep_by(p, sep), when sep succeeds and the p after it fails, the
\* list ends successfully with the items collected so far and the remaining
\* Input is where that sep started.
C18_TrailingSepIsNotConsumed ==
    (SepByReturned /\ SepRan(lastGood) /\ SepAttempt(lastGood).ok) =>
        /\ out.ok
        /\ out.val = items
        /\ Len(out.val) = calls - 1
        /\ Len(out.val) = ecalls
        /\ out.rem.off = lastGood
        /\ out.rem.data = input.data

\* C18 witness: after one item sep consumed a token and p then failed.
C18_Witness ==
    /\ SepByReturned
    /\ SepRan(lastGood) /\ SepAttempt(lastGood).ok /\ SepAttempt(lastGood).adv > 0
    /\ Len(out.val) >= 1
    /\ Unwrap(buf).off > lastGood
    /\ out.rem.off = lastGood

\* ------------------------------------------------------------------------
\* many_till(p, end)

\* The loop of many_till has returned to its caller.
TillReturned == pc = "idle" /\ ev = "RunIterTillEnd" /\ comb = "many_till"

\* The last iteration of the till loop ran p, and p failed.
TillPFailed == att.pRan /\ Ran(att.pFrom.off) /\ ~Attempt(att.pFrom.off).ok

\* C12: when end matches at the starting position, many_till returns Success
\* with an empty collection and the remainder end left, and p is never run.
C12_EndAtStartReturnsEmpty ==
    (TillReturned /\ ecalls = 1 /\ state = TillEndSuccess) =>
        /\ out.ok
        /\ out.val = <<>>
        /\ out.rem = att.eRem
        /\ att.eFrom = input
        /\ calls = 0
        /\ ~att.pRan
        /\ ptab = EmptyTab

\* C12 witness: end matched at the start of a many_till and consumed tokens.
C12_Witness ==
    /\ TillReturned /\ ecalls = 1 /\ state = TillEndSuccess
    /\ att.eRem.off > input.off
    /\ out.ok

\* C13: whenever the end test fails, p is attempted from the position end was
\* attempted from, whatever end consumed before failing.
C13_PStartsWhereEndStarted ==
    (pc \in {"till", "till_collected"} /\ att.pRan) =>
        /\ att.pFrom.off = att.eFrom.off
        /\ Ran(att.eFrom.off)

\* C13 witness: end consumed tokens and failed, then p was run, in an
\* iteration that is not the first.
C13_Witness ==
    /\ pc \in {"till", "till_collected"}
    /\ att.pRan
    /\ att.eRem.off > att.eFrom.off
    /\ att.eFrom.off > input.off

\* C14: when an attempt of p fails, many_till returns an error, and the error
\* is the one of that attempt of p.
C14_ErrorIsTheOneOfP ==
    (TillReturned /\ TillPFailed) =>
        /\ ~out.ok
        /\ out.err = Attempt(att.pFrom.off).err
        /\ state = TillError(Attempt(att.pFrom.off).err)

\* C14 witness: p failed after an item had been collected; the end test
\* before it had failed as well.
C14_Witness ==
    /\ TillReturned /\ TillPFailed
    /\ items # <<>>
    /\ ecalls = calls
    /\ out.err \in Errs

C20_EndStateIsAfterLastSuccess ==
    (pc = "till_collected" /\ buf # None) => Unwrap(buf).off = lastGood

\* ------------------------------------------------------------------------
\* A source delivered in chunks

\* s is a prefix of t.
IsPrefix(s, t) == Len(s) <= Len(t) /\ \A k \in 1..Len(s) : s[k] = t[k]

\* A parse call on the stream returns in this step.
StreamReturns ==
    \/ ev' = "ParsePlain"
    \/ ev' \in {"RunIterEnd", "RunIterTillEnd"} /\ caller = "stream"

\* A parse call on a stream that is not empty is made in this step.
StreamCalled ==
    \/ ev' = "ParsePlain"
    \/ ev' \in {"RunIterBegin", "RunIterTillBegin"} /\ caller' = "stream"

\* C11: a parse call that returns Incomplete commits nothing; appending the
\* next chunk changes neither the position nor the tokens already there; the
\* call made after it starts its parser at the position of the first attempt,
\* on the tokens of the first attempt followed by the new ones; and when that
\* call succeeds the position is advanced by what the successful attempt
\* consumed, counted from where both attempts started.
C11_RetryAfterRefillCountsOnce ==
    [][/\ (StreamReturns /\ sres'.kind = "Incomplete") => pos' = pos
       /\ ev' = "Refill" =>
              /\ pos' = pos
              /\ IsPrefix(slice, slice')
              /\ sres' = sres
       /\ (StreamCalled /\ sres.kind = "Incomplete") =>
              /\ before' = before
              /\ IsPrefix(given, given')
              /\ prevLen' = Len(given)
       /\ (StreamReturns /\ retry' /\ sres'.kind = "Ok") =>
              /\ pos' = before' + out'.rem.off
              /\ pos' <= Len(slice')]_vars

\* C11 witness: the first call got one chunk, consumed tokens and returned
\* Incomplete; the call after the refill got more tokens, started at the same
\* position and succeeded having consumed tokens of both chunks.
C11_Witness ==
    /\ StreamReturned
    /\ retry
    /\ sres.kind = "Ok"
    /\ 0 < prevLen
    /\ prevLen < Len(given)
    /\ out.rem.off > prevLen
    /\ pos = before + out.rem.off

\* ------------------------------------------------------------------------
\* The position of the stream

\* What the parse call returning in this step commits: the tokens its parser
\* consumed when it returns Ok or ParseError, nothing otherwise.
CommittedByCall ==
    IF StreamReturns /\ sres'.kind \in {"Ok", "ParseError"}
    THEN out'.rem.off
    ELSE 0

\* C21: pos stays within 0..length of the slice, so len() does not underflow
\* and slice[pos..] is in range, and every step adds to pos exactly what the
\* call returning in it commits: pos is the sum of what the calls that
\* returned Ok or ParseError committed.
C21_PosIsSumOfCommits ==
    /\ pos = 0
    /\ [][/\ pos' \in 0..Len(slice')
          /\ Len(slice') - pos' >= 0
          /\ pos' = pos + CommittedByCall]_vars

\* C21 witness: a call committed tokens, and a later call that returned
\* ParseError committed some more, short of the end of the slice.
C21_Witness ==
    /\ StreamReturned
    /\ sres.kind = "ParseError"
    /\ before > 0
    /\ pos > before
    /\ pos < Len(slice)
    /\ pos = before + out.rem.off

\* C22: pos never decreases; a parse call hands its parser the tokens of the
\* slice from pos on and none before it; and a parse call made after one that
\* returned EndOfInput returns EndOfInput.
C22_PosNeverDecreases ==
    [][/\ pos' >= pos
       /\ StreamCalled =>
              /\ given' = SubSeq(slice, pos + 1, Len(slice))
              /\ \A k \in 1..Len(given') : given'[k] > pos
       /\ (sres.kind = "EndOfInput" /\ (StreamCalled \/ ev' = "ParseEmpty")) =>
              /\ ev' = "ParseEmpty"
              /\ sres'.kind = "EndOfInput"
              /\ given' = given]_vars

\* C22 witness: a call committed tokens, a later call was handed the rest only
\* and committed it, and the call after that returned EndOfInput.
C22_Witness ==
    /\ ev = "ParseEmpty"
    /\ sres.kind = "EndOfInput"
    /\ given # <<>>
    /\ Len(given) < Len(slice)
    /\ given[1] = Len(slice) - Len(given) + 1
    /\ pos = Len(slice)

\* ------------------------------------------------------------------------
\* The buf field of the iterators

\* C23: whenever next() is not executing, also after it has returned None and
\* when it is called again after that, buf holds an Input, so none of the
\* expect("Iter.buf was None") in next, iter_till_end_test and end_state
\* fails.
C23_BufIsSomeBetweenCalls ==
    /\ pc # "panic"
    /\ pc \in {"iter", "collected", "till", "till_collected"} => buf # None

\* C23 witness: next() of Iter was called again after it had returned None on
\* a failed attempt, and the attempt it made consumed tokens and failed too.
C23_Witness ==
    /\ ev = "IterNextAgain"
    /\ pc = "collected"
    /\ state # None
    /\ buf # None
    /\ Unwrap(buf).off > mark
    /\ mark > lastGood

\* ------------------------------------------------------------------------
\* Termination of the loop of run_iter!

\* How often next() has invoked the parser of the Iter.  The parser of
\* sep_by is p for the first item and sep followed by p for the others.
Invocations ==
    IF comb = "sep_by"
    THEN IF calls = 0 THEN 0 ELSE ecalls + 1
    ELSE calls

\* Every successful attempt of the parser of the Iter so far consumed at
\* least one token.
EverySuccessConsumes ==
    IF comb = "sep_by"
    THEN /\ (Ran(input.off) /\ Attempt(input.off).ok) => Attempt(input.off).adv >= 1
         /\ \A q \in 0..MaxLen :
                (SepRan(q) /\ SepAttempt(q).ok) =>
                    LET x == q + SepAttempt(q).adv IN
                    (Ran(x) /\ Attempt(x).ok) =>
                        SepAttempt(q).adv + Attempt(x).adv >= 1
    ELSE \A q \in 0..MaxLen : (Ran(q) /\ Attempt(q).ok) => Attempt(q).adv >= 1

\* C24: when every successful attempt consumes at least one token the loop
\* makes at most (remaining length + 1) invocations of the parser; a call of
\* next() invokes it at most once; the loop goes on only while no attempt has
\* failed, and after the None only end_state follows; and the loop comes to
\* its end.
C24_LoopTerminates ==
    /\ []((pc \in {"iter", "collected"} /\ EverySuccessConsumes) =>
              Invocations <= InputLen(input) + 1)
    /\ [](pc = "iter" => state = None)
    /\ [][/\ ev' = "IterNext" =>
                 /\ Invocations' <= Invocations + 1
                 /\ calls' <= calls + 1
                 /\ state' # None => pc' = "collected"
          /\ pc = "collected" => ev' = "RunIterEnd"]_vars
    /\ (pc = "iter") ~> (pc = "collected" \/ ~EverySuccessConsumes)

\* C24 witness: many made as many invocations as there were tokens and one
\* more, each success having consumed one token, and stopped on the failure.
C24_Witness ==
    /\ pc = "collected"
    /\ comb = "many"
    /\ EverySuccessConsumes
    /\ InputLen(input) >= 2
    /\ calls = InputLen(input) + 1
    /\ Len(items) = InputLen(input)
    /\ state # None

====
